---- MODULE Spec2Model ----
(***************************************************************************)
(* Serial transport of the gimbal controller (src/js/gimbalSerial.js):     *)
(* the lock that pauses the telemetry poll (runWithSerialLock,             *)
(* updateLiveData), the wire operations (sendMsg, readMsg) and the         *)
(* connection lifecycle (requestSerialPort, reconnectSerialPort,           *)
(* closeSerialPort).                                                       *)
(*                                                                         *)
(* JavaScript runs one task at a time: an action is the synchronous code   *)
(* between two suspension points (await).  A promise that has settled      *)
(* leaves its continuation in the microtask queue; timers and I/O          *)
(* completions are macrotasks and run only when that queue is empty.       *)
(***************************************************************************)
EXTENDS Integers, Sequences, FiniteSets, TLC

VARIABLES
  serialPort, writer, reader,          \* gimbalSerial.js:8-10 (0 = null/undefined)
  portOpen, wLocked, rLocked,          \* the browser's side: open ports, locked streams
  serialLockDepth, liveDataPauseRequested,
  liveDataInProgress, liveDataIdleResolvers,   \* gimbalSerial.js:13-16
  intervalShowLiveData,                \* app.js:5 (0 = null)
  pc, kind, arg, nest, io, result, written,    \* the async calls in progress
  pendingReads,                        \* reader.read() requests not yet settled, oldest first
  lastTimer,                           \* what the latest timer firing did
  connPc, connKind, connPort, connResult, connFail,   \* the lifecycle call in progress
  lastClose,                           \* the session the latest closeSerialPort found
  wire, response, readPc, readResult,  \* one read loop of readMsg and the bytes to come
  lastUIUpdateTime,                    \* gimbalSerial.js:17
  shouldRecordData, rowsLen,           \* app.js:16, app.js:27 (entries per series)
  clock,                               \* Date.now()
  tRead, uiUpdates, pushed,            \* the latest response processed by updateLiveData,
                                       \* the updateInputValue calls and the rows entry it made
  input, pairs, parsePc,               \* a response text, and parsePairs(input) once called
  lookupKey, lookupResult,             \* the latest getValue(pairs, key) and its value
  timers,                              \* the browser's side: interval timers not cleared
  showPc, liveWanted,                  \* the showLiveData calls in progress; the latest argument
  flushPc, flushElapsed, flushEnd,     \* flushSerialReader: position, time used, how it ended
  togglePc,                            \* connectToggle, unchecked: its position
  zeroPc, attempts, zeroReads,         \* setZeroAngles: position, failed attempts, readMsg calls
  zeroText, zeroSent, zeroEnd          \* its latest response, the commands it sent, how it ended

lockVars   == <<serialLockDepth, liveDataPauseRequested, liveDataInProgress,
                liveDataIdleResolvers>>
procVars   == <<pc, kind, arg, nest, io, result, written>>
handleVars == <<serialPort, writer, reader, portOpen, wLocked, rLocked>>
connVars   == <<connPc, connKind, connPort, connResult, connFail, lastClose>>
frameVars  == <<wire, response, readPc, readResult>>
sampleVars == <<lastUIUpdateTime, shouldRecordData, rowsLen, clock, tRead,
                uiUpdates, pushed>>
parseVars  == <<input, pairs, parsePc, lookupKey, lookupResult>>
liveVars   == <<timers, showPc, liveWanted>>
flushVars  == <<flushPc, flushElapsed, flushEnd>>
setupVars  == <<togglePc, zeroPc, attempts, zeroReads, zeroText, zeroSent, zeroEnd>>
dataVars   == <<frameVars, sampleVars, parseVars, liveVars, flushVars, setupVars>>
vars == <<serialPort, writer, reader, portOpen, wLocked, rLocked,
          serialLockDepth, liveDataPauseRequested, liveDataInProgress,
          liveDataIdleResolvers, intervalShowLiveData,
          pc, kind, arg, nest, io, result, written, pendingReads, lastTimer,
          connPc, connKind, connPort, connResult, connFail, lastClose,
          wire, response, readPc, readResult,
          lastUIUpdateTime, shouldRecordData, rowsLen, clock, tRead,
          uiUpdates, pushed,
          input, pairs, parsePc, lookupKey, lookupResult,
          timers, showPc, liveWanted, flushPc, flushElapsed, flushEnd,
          togglePc, zeroPc, attempts, zeroReads, zeroText, zeroSent, zeroEnd>>

---------------------------------------------------------------------------
(* Bounds *)

NumCallers == 2        \* concurrent callers of sendMsg / readMsg
MaxZombies == 1        \* abandoned reader.read() requests that are tracked
NumPorts   == 2        \* serial ports the chooser can offer
MaxFrame   == 4        \* characters of a response followed through the read loop
MaxFields  == 8        \* fields of a telemetry response
MaxRows    == 2        \* entries of the recording series that are counted
MaxElapsed == 250      \* milliseconds of clock that are followed
MaxSkew    == 1        \* milliseconds between two reads of the clock in one run
MaxTokens  == 4        \* semicolon-separated tokens of a text given to parsePairs
MaxTimers  == 2        \* interval timers alive at once
FlushBudget == 2       \* clock steps in the time budget of flushSerialReader

---------------------------------------------------------------------------
(* Values *)

None    == 0                       \* null / undefined handle
Tick    == 0                       \* the telemetry tick (updateLiveData)
Callers == 1..NumCallers
Procs   == {Tick} \cup Callers
Ports   == 1..NumPorts
Zombie  == -1                      \* a read whose caller has stopped waiting
Flush   == -2                      \* flushSerialReader, as the owner of a read

CR == "\r"
\* the commands the callers issue, as token sequences
MsgMotorEnable == <<"R1[3]=1", CR>>
MsgEchoOff     == <<"eo=1;">>
MsgEchoOn      == <<"eo=0;">>
MsgReadOffsets == <<"S1[17];AX1.px;S2[17];AX2.px;">>
MsgLiveData    == <<"R1[10];R1[31];R1[41];R1[33];R1[43];R1[34];R1[44];;", CR>>
SendMessages   == {MsgMotorEnable, MsgEchoOff}

WriteErrors == {"NetworkError", "InvalidStateError"}
Errors      == WriteErrors \cup {"TypeError", "Timeout"}
Kinds       == {"sendMsg", "readMsg", "nested"}

\* encoder.encode(message + '\r')
Encode(message) == Append(message, CR)

---------------------------------------------------------------------------
(* The lock: runWithSerialLock and waitForLiveDataIdle *)

NeedsWaitAlways(d) == d >= 1

\* `if (serialLockDepth === 1)`, on the depth just incremented
NeedsWait(d) == d = 1

ExitDepthToZero(d) == 0

\* `serialLockDepth = Math.max(0, serialLockDepth - 1)`
ExitDepth(d) == IF d - 1 > 0 THEN d - 1 ELSE 0

ExitPauseAlways(d, p) == FALSE

\* `if (serialLockDepth === 0) liveDataPauseRequested = false`, on the new depth
ExitPause(d, p) == IF d = 0 THEN FALSE ELSE p

ExitOnSuccessOnly(r, d) == IF r \in Errors THEN d ELSE ExitDepth(d)

\* try { return await fn() } finally { ... }: the depth runWithSerialLock
\* leaves when fn has settled with r, a value or an error
ExitOn(r, d) == ExitDepth(d)

MustRegisterAlways == TRUE

\* waitForLiveDataIdle registers a resolver only while a tick is in flight
MustRegister == liveDataInProgress

TickSkipsIgnoresProgress == liveDataPauseRequested

TickSkipsIgnoresPause == liveDataInProgress

\* `if (liveDataPauseRequested || liveDataInProgress) return`
TickSkips == liveDataPauseRequested \/ liveDataInProgress

\* The synchronous entry of runWithSerialLock by a call of kind k that has
\* n - 1 enclosing runWithSerialLock frames, from depth d and pause flag p: the
\* depth and flag it leaves, the frames entered, and whether it stops at
\* `await waitForLiveDataIdle()`.  A nested call's fn enters the lock again in
\* the same synchronous run.
RECURSIVE EntryPlan(_, _, _, _)
EntryPlan(k, d, n, p) ==
  IF NeedsWait(d + 1)
    THEN [depth |-> d + 1, nest |-> n, pause |-> TRUE, wait |-> TRUE]
    ELSE IF k = "nested" /\ n = 1
           THEN EntryPlan(k, d + 1, 2, p)
           ELSE [depth |-> d + 1, nest |-> n, pause |-> p, wait |-> FALSE]

\* a continuation is queued: it runs before any timer or I/O event
MicrotaskPending ==
  \E p \in Procs :
     \/ pc[p] \in {"lockReady", "unwind", "finally"}
     \/ pc[p] \in {"writing", "reading"} /\ io[p] # "pending"
     \/ p \in Callers /\ showPc[p] # "none" /\ pc[p] = "done"
     \/ flushPc = "reading" /\ \A i \in 1..Len(pendingReads) : pendingReads[i] # Flush
     \/ togglePc = "sending" /\ pc[2] = "done"
     \/ zeroPc = "reading" /\ pc[2] = "done"
     \/ zeroPc \in {"flush1", "flush2"} /\ flushPc = "done"

Zombies == Cardinality({i \in 1..Len(pendingReads) : pendingReads[i] = Zombie})

\* writeSerialMessage(message), called by p whose writes so far are w: no
\* write without a writer, else writer.write is called and awaited
IssueWrite(p, m, w) ==
  IF writer = None
    THEN /\ io' = [io EXCEPT ![p] = "ok"]
         /\ written' = [written EXCEPT ![p] = w]
    ELSE /\ io' = [io EXCEPT ![p] = "pending"]
         /\ written' = [written EXCEPT ![p] = Append(w, Encode(m))]

\* runWithSerialLock(fn) up to its first suspension, for caller c with n - 1
\* enclosing frames: the entry, then either the wait for the tick or fn
EnterLock(c, k, m, n, w) ==
  LET plan == EntryPlan(k, serialLockDepth, n, liveDataPauseRequested) IN
  /\ serialLockDepth' = plan.depth
  /\ liveDataPauseRequested' = plan.pause
  /\ nest' = [nest EXCEPT ![c] = plan.nest]
  /\ UNCHANGED liveDataInProgress
  /\ IF plan.wait
       THEN /\ IF MustRegister
                 THEN /\ liveDataIdleResolvers' = liveDataIdleResolvers \cup {c}
                      /\ pc' = [pc EXCEPT ![c] = "lockWait"]
                 ELSE /\ pc' = [pc EXCEPT ![c] = "lockReady"]
                      /\ UNCHANGED liveDataIdleResolvers
            /\ UNCHANGED io
            /\ written' = [written EXCEPT ![c] = w]
       ELSE /\ pc' = [pc EXCEPT ![c] = "writing"]
            /\ IssueWrite(c, m, w)
            /\ UNCHANGED liveDataIdleResolvers

CallRefusedWriterOnly(k) == k \in {"sendMsg", "readMsg"} /\ writer = None

\* the guards of sendMsg (`if (!writer)`) and of readMsg (`if (!reader)`,
\* `if (!writer)`): the call returns at once
CallRefused(k) ==
  \/ k = "sendMsg" /\ writer = None
  \/ k = "readMsg" /\ (reader = None \/ writer = None)

\* sendMsg(m) / readMsg(m) / runWithSerialLock(() => runWithSerialLock(inner))
\* called by caller c: the guards, then the lock entry
CallLock(c, k, m) ==
  /\ pc[c] \in {"idle", "done"}
  /\ IF CallRefused(k)
       THEN /\ pc' = [pc EXCEPT ![c] = "done"]
            /\ result' = [result EXCEPT ![c] = IF k = "sendMsg" THEN "undefined" ELSE ""]
            /\ UNCHANGED <<lockVars, nest, kind, arg, io, written>>
       ELSE /\ result' = [result EXCEPT ![c] = "none"]
            /\ kind' = [kind EXCEPT ![c] = k]
            /\ arg' = [arg EXCEPT ![c] = m]
            /\ EnterLock(c, k, m, 1, <<>>)
  /\ UNCHANGED <<handleVars, pendingReads, lastTimer, connVars>>

Call(c, k, m) ==
  /\ CallLock(c, k, m)
  /\ UNCHANGED intervalShowLiveData
  /\ UNCHANGED dataVars

\* the continuation of `await waitForLiveDataIdle()`: fn runs
Resume(c) ==
  /\ pc[c] = "lockReady"
  /\ IF kind[c] = "nested" /\ nest[c] = 1
       THEN EnterLock(c, kind[c], arg[c], 2, written[c])
       ELSE /\ pc' = [pc EXCEPT ![c] = "writing"]
            /\ IssueWrite(c, arg[c], written[c])
            /\ UNCHANGED <<lockVars, nest>>
  /\ UNCHANGED <<kind, arg, result, handleVars, intervalShowLiveData, pendingReads,
                 lastTimer, connVars>>
  /\ UNCHANGED dataVars

TickEndKeepsWaiters ==
  /\ liveDataInProgress' = FALSE
  /\ UNCHANGED liveDataIdleResolvers
  /\ pc' = [pc EXCEPT ![Tick] = "done"]
  /\ UNCHANGED <<serialLockDepth, liveDataPauseRequested, nest, kind, arg>>

\* updateLiveData's finally: the tick is over and every waiter is woken
TickEnd ==
  /\ liveDataInProgress' = FALSE
  /\ liveDataIdleResolvers' = {}
  /\ pc' = [q \in Procs |->
              IF q = Tick THEN "done"
              ELSE IF q \in liveDataIdleResolvers THEN "lockReady"
              ELSE pc[q]]
  /\ UNCHANGED <<serialLockDepth, liveDataPauseRequested, nest, kind, arg>>

\* runWithSerialLock's finally for caller c, whose fn has settled with r
LockEnd(c, r) ==
  /\ serialLockDepth' = ExitOn(r, serialLockDepth)
  /\ liveDataPauseRequested' =
       ExitPause(ExitOn(r, serialLockDepth), liveDataPauseRequested)
  /\ nest' = [nest EXCEPT ![c] = 0]
  /\ pc' = [pc EXCEPT ![c] = "done"]
  /\ kind' = [kind EXCEPT ![c] = "none"]
  /\ arg' = [arg EXCEPT ![c] = <<>>]
  /\ UNCHANGED <<liveDataInProgress, liveDataIdleResolvers>>

\* The end of call p with value r.  The call's frame (its kind, argument and
\* writes) is gone; its value stays.
Finish(p, r) ==
  /\ result' = [result EXCEPT ![p] = r]
  /\ io' = [io EXCEPT ![p] = "pending"]
  /\ written' = [written EXCEPT ![p] = <<>>]
  /\ IF p = Tick THEN TickEnd ELSE LockEnd(p, r)

CaughtRethrown(e) == e

\* readMsg's catch: whatever was thrown, '' is returned
Caught(e) == ""

\* reader.read() in readMsg's loop: a TypeError without a reader (caught:
\* readMsg returns ''), else one more pending read
StartRead(p) ==
  IF reader = None
    THEN /\ Finish(p, Caught("TypeError"))
         /\ UNCHANGED pendingReads
    ELSE /\ pc' = [pc EXCEPT ![p] = "reading"]
         /\ pendingReads' = Append(pendingReads, p)
         /\ UNCHANGED <<lockVars, nest, result, kind, arg, io, written>>

\* the timer callback: updateLiveData, up to the write of its readMsg
TimerCallback ==
  /\ ~MicrotaskPending
  /\ IF TickSkips
       THEN /\ lastTimer' = "skipped"
            /\ UNCHANGED <<lockVars, procVars>>
       ELSE /\ lastTimer' = "started"
            /\ liveDataInProgress' = TRUE
            /\ result' = [result EXCEPT ![Tick] = "none"]
            /\ IF reader = None \/ writer = None
                 THEN /\ pc' = [pc EXCEPT ![Tick] = "finally"]
                      /\ UNCHANGED <<io, written>>
                 ELSE /\ pc' = [pc EXCEPT ![Tick] = "writing"]
                      /\ IssueWrite(Tick, MsgLiveData, <<>>)
            /\ UNCHANGED <<serialLockDepth, liveDataPauseRequested,
                           liveDataIdleResolvers, kind, arg, nest>>
  /\ UNCHANGED <<handleVars, intervalShowLiveData, pendingReads, connVars>>
  /\ UNCHANGED dataVars

\* the timer held in intervalShowLiveData fires
TimerFire ==
  /\ intervalShowLiveData # None
  /\ TimerCallback

\* readMsg returned '' at once (no reader or writer): the tick's finally
TickFinally ==
  /\ pc[Tick] = "finally"
  /\ Finish(Tick, "")
  /\ UNCHANGED <<handleVars, intervalShowLiveData, pendingReads, lastTimer, connVars>>
  /\ UNCHANGED dataVars

\* writer.write() settles with o (done, or a rejection) and the code awaiting
\* it goes on: no other code runs between a settlement by the browser and
\* the continuation it queues.  Without a writer writeSerialMessage has
\* returned at once and only the continuation is left.
WriteDone(p, o) ==
  /\ pc[p] = "writing"
  /\ IF io[p] = "pending" THEN ~MicrotaskPending ELSE o = "ok"
  /\ IF kind[p] = "sendMsg"
       THEN \* exec settles; runWithSerialLock's finally; a rejection propagates
            /\ Finish(p, IF o \in Errors THEN o ELSE "undefined")
            /\ UNCHANGED pendingReads
       ELSE IF kind[p] = "nested"
       THEN \* the inner runWithSerialLock's finally; the outer one follows
            /\ serialLockDepth' = ExitOn(o, serialLockDepth)
            /\ liveDataPauseRequested' =
                 ExitPause(ExitOn(o, serialLockDepth), liveDataPauseRequested)
            /\ nest' = [nest EXCEPT ![p] = 1]
            /\ pc' = [pc EXCEPT ![p] = "unwind"]
            /\ io' = [io EXCEPT ![p] = o]
            /\ UNCHANGED <<liveDataInProgress, liveDataIdleResolvers, result,
                           pendingReads, kind, arg, written>>
       ELSE IF o \in Errors
       THEN \* readMsg's catch
            /\ Finish(p, Caught(o))
            /\ UNCHANGED pendingReads
       ELSE StartRead(p)
  /\ UNCHANGED <<handleVars, intervalShowLiveData, lastTimer, connVars>>
  /\ UNCHANGED dataVars

\* the outer runWithSerialLock's finally of a nested call
Unwind(c) ==
  /\ pc[c] = "unwind"
  /\ Finish(c, IF io[c] \in Errors THEN io[c] ELSE "undefined")
  /\ UNCHANGED <<handleVars, intervalShowLiveData, pendingReads, lastTimer, connVars>>
  /\ UNCHANGED dataVars

\* The device side delivers a chunk to the oldest pending read; ch tells
\* whether the chunk holds ';;'.  The read loop that gets it returns on ';;'
\* and reads again otherwise; an abandoned loop does the same, unobserved.
ReadChunk(ch) ==
  /\ pendingReads # <<>>
  /\ Head(pendingReads) # Flush
  /\ ~MicrotaskPending
  /\ LET h == Head(pendingReads) IN
     IF h = Zombie
       THEN /\ pendingReads' = IF ch = "final" THEN Tail(pendingReads)
                               ELSE Append(Tail(pendingReads), Zombie)
            /\ UNCHANGED <<lockVars, procVars>>
       ELSE IF ch = "final"
       THEN /\ pendingReads' = Tail(pendingReads)
            /\ Finish(h, "frame")
       ELSE IF reader = None
       THEN /\ pendingReads' = Tail(pendingReads)
            /\ Finish(h, Caught("TypeError"))
       ELSE /\ pendingReads' = Append(Tail(pendingReads), h)
            /\ UNCHANGED <<lockVars, procVars>>
  /\ UNCHANGED <<handleVars, intervalShowLiveData, lastTimer, connVars>>
  /\ UNCHANGED dataVars

\* the 40 ms timer of readMsg wins the race: readMsg returns '' and the read
\* stays pending (beyond MaxZombies such reads are no longer tracked)
ReadTimeout(p) ==
  /\ pc[p] = "reading" /\ io[p] = "pending"
  /\ ~MicrotaskPending
  /\ pendingReads' =
       IF Zombies < MaxZombies
         THEN [i \in 1..Len(pendingReads) |->
                 IF pendingReads[i] = p THEN Zombie ELSE pendingReads[i]]
         ELSE SelectSeq(pendingReads, LAMBDA x : x # p)
  /\ Finish(p, Caught("Timeout"))
  /\ UNCHANGED <<handleVars, intervalShowLiveData, lastTimer, connVars>>
  /\ UNCHANGED dataVars

\* a read rejected by reader.releaseLock(): readMsg's catch returns ''
ReadRejected(p) ==
  /\ pc[p] = "reading" /\ io[p] # "pending"
  /\ Finish(p, Caught(io[p]))
  /\ UNCHANGED <<handleVars, intervalShowLiveData, pendingReads, lastTimer, connVars>>
  /\ UNCHANGED dataVars

---------------------------------------------------------------------------
(* The telemetry timer: showLiveData *)

TimerIds == 1..MaxTimers

\* the code after `await sendMsg('eo=0;')` runs unless sendMsg rejected
SetsTimer(r) == r \notin Errors

\* showLiveData(state) called by c, up to its `await sendMsg(...)`: a stop
\* with a timer held clears it; a start only sends; a stop without a timer
\* held does nothing
ShowCall(c, state) ==
  /\ showPc[c] = "none"
  /\ state => Cardinality(timers) + Cardinality({d \in Callers : showPc[d] = "start"})
                < MaxTimers
  /\ liveWanted' = IF state THEN "start" ELSE "stop"
  /\ IF intervalShowLiveData # None /\ ~state
       THEN /\ timers' = timers \ {intervalShowLiveData}
            /\ intervalShowLiveData' = None
            /\ CallLock(c, "sendMsg", MsgEchoOff)
            /\ showPc' = [showPc EXCEPT ![c] = "stop"]
       ELSE IF state
       THEN /\ CallLock(c, "sendMsg", MsgEchoOn)
            /\ showPc' = [showPc EXCEPT ![c] = "start"]
            /\ UNCHANGED <<timers, intervalShowLiveData>>
       ELSE /\ pc[c] \in {"idle", "done"}
            /\ UNCHANGED <<timers, intervalShowLiveData, showPc, lockVars, procVars,
                           handleVars, pendingReads, lastTimer, connVars>>
  /\ UNCHANGED <<frameVars, sampleVars, parseVars, flushVars>>

showLiveData(c, state) ==
  /\ ShowCall(c, state)
  /\ UNCHANGED setupVars

\* the continuation of `await sendMsg(...)` in showLiveData: a start sets
\* the interval timer and keeps its id in intervalShowLiveData
ShowResume(c) ==
  /\ showPc[c] # "none"
  /\ pc[c] = "done"
  /\ IF showPc[c] = "start" /\ SetsTimer(result[c])
       THEN LET t == CHOOSE i \in TimerIds \ timers :
                       \A j \in TimerIds \ timers : i <= j
            IN /\ intervalShowLiveData' = t
               /\ timers' = timers \cup {t}
       ELSE UNCHANGED <<intervalShowLiveData, timers>>
  /\ showPc' = [showPc EXCEPT ![c] = "none"]
  /\ UNCHANGED <<liveWanted, lockVars, procVars, handleVars, pendingReads, lastTimer,
                 connVars, frameVars, sampleVars, parseVars, flushVars, setupVars>>

\* an interval timer that was not cleared fires
LiveTimerFire(t) ==
  /\ t \in timers
  /\ TimerCallback

---------------------------------------------------------------------------
(* The connection: closeSerialPort, requestSerialPort, reconnectSerialPort *)

HeldAlways(h) == TRUE

\* `if (writer)`, `if (reader)`, `if (serialPort)`: a handle is truthy
Held(h) == h # None

CatchPortKept(p) == p

\* reconnectSerialPort's catch: `serialPort = null`, whatever it was
CatchPort(p) == None

\* port.close() closes an open port whose streams are unlocked; otherwise its
\* promise rejects and the port stays as it is
PortCloses(p, open, wl, rl) == p \in open /\ p \notin wl /\ p \notin rl

\* closeSerialPort() on the session s = [writer, reader, serialPort, portOpen,
\* wLocked, rLocked]: the session it leaves, and whether it threw (a method
\* called on a null handle throws a TypeError and ends the function)
CloseOf(s) ==
  LET s1 == IF Held(s.writer) /\ ~s.threw
              THEN IF s.writer = None
                     THEN [s EXCEPT !.threw = TRUE]
                     ELSE [s EXCEPT !.wLocked = @ \ {s.writer}, !.writer = None]
              ELSE s
      s2 == IF Held(s1.reader) /\ ~s1.threw
              THEN IF s1.reader = None
                     THEN [s1 EXCEPT !.threw = TRUE]
                     ELSE [s1 EXCEPT !.rLocked = @ \ {s1.reader}, !.reader = None]
              ELSE s1
      s3 == IF Held(s2.serialPort) /\ ~s2.threw
              THEN IF s2.serialPort = None
                     THEN [s2 EXCEPT !.threw = TRUE]
                     ELSE [s2 EXCEPT
                             !.portOpen =
                                IF PortCloses(s2.serialPort, s2.portOpen,
                                              s2.wLocked, s2.rLocked)
                                  THEN @ \ {s2.serialPort} ELSE @,
                             !.serialPort = None]
              ELSE s2
  IN s3

Session ==
  [writer |-> writer, reader |-> reader, serialPort |-> serialPort,
   portOpen |-> portOpen, wLocked |-> wLocked, rLocked |-> rLocked,
   threw |-> FALSE]

\* how much of the session is held
Shape(s) ==
  IF s.writer # None /\ s.reader # None /\ s.serialPort # None THEN "open"
  ELSE IF s.writer = None /\ s.reader = None /\ s.serialPort = None THEN "closed"
  ELSE "partial"

\* reader.releaseLock() rejects the reads still pending with a TypeError
ReleaseReads(r0, r1) ==
  IF r0 # None /\ r1 = None
    THEN /\ pendingReads' = <<>>
         /\ io' = [p \in Procs |->
                     IF pc[p] = "reading" /\ io[p] = "pending"
                       THEN "TypeError" ELSE io[p]]
    ELSE UNCHANGED <<pendingReads, io>>

ClosePort ==
  LET r == CloseOf(Session) IN
  /\ writer' = r.writer
  /\ reader' = r.reader
  /\ serialPort' = r.serialPort
  /\ portOpen' = r.portOpen
  /\ wLocked' = r.wLocked
  /\ rLocked' = r.rLocked
  /\ lastClose' = IF r.threw THEN "threw" ELSE Shape(Session)
  /\ ReleaseReads(reader, r.reader)
  /\ UNCHANGED <<lockVars, pc, kind, arg, nest, result, written,
                 intervalShowLiveData, lastTimer,
                 connPc, connKind, connPort, connResult, connFail>>

closeSerialPort ==
  /\ ClosePort
  /\ UNCHANGED dataVars

\* requestSerialPort() is called: it awaits the port chooser
RequestStart ==
  /\ connPc = "idle"
  /\ connPc' = "reqPort"
  /\ connKind' = "request"
  /\ connResult' = "none"
  /\ connFail' = "none"
  /\ UNCHANGED <<connPort, lastClose, handleVars, lockVars, procVars,
                 intervalShowLiveData, pendingReads, lastTimer>>
  /\ UNCHANGED dataVars

\* the chooser settles: the user picks port p, or cancels (p = None) and
\* requestPort() rejects; on a pick, serialPort is set and open() is awaited
ReqPort(p) ==
  /\ connPc = "reqPort"
  /\ IF p = None
       THEN /\ connPc' = "idle"
            /\ connResult' = "false"
            /\ connFail' = "cancel"
            /\ UNCHANGED <<serialPort, connPort>>
       ELSE /\ connPc' = "reqOpen"
            /\ serialPort' = p
            /\ connPort' = p
            /\ UNCHANGED <<connResult, connFail>>
  /\ UNCHANGED <<connKind, lastClose, writer, reader, portOpen, wLocked, rLocked,
                 lockVars, procVars, intervalShowLiveData, pendingReads, lastTimer>>
  /\ UNCHANGED dataVars

\* What follows `await port.open()` for the port p that was opened, in
\* requestSerialPort and in reconnectSerialPort: o is what the browser lets
\* succeed ("open": open() rejects, "writer": getWriter() throws, "reader":
\* getReader() throws, "ok").  sp is the value of the global serialPort that
\* `serialPort.writable` reads.  Gives the handles and the failure.
Acquire(p, sp, o, s) ==
  IF o = "open" \/ p \in s.portOpen
    THEN [s EXCEPT !.threw = TRUE] @@ [fail |-> "open"]
  ELSE LET s1 == [s EXCEPT !.portOpen = @ \cup {p}] IN
    IF o = "writer" \/ sp = None \/ sp \in s1.wLocked
      THEN [s1 EXCEPT !.threw = TRUE] @@ [fail |-> "writer"]
    ELSE LET s2 == [s1 EXCEPT !.writer = sp, !.wLocked = @ \cup {sp}] IN
      IF o = "reader" \/ sp \in s2.rLocked
        THEN [s2 EXCEPT !.threw = TRUE] @@ [fail |-> "reader"]
        ELSE [s2 EXCEPT !.reader = sp, !.rLocked = @ \cup {sp}] @@ [fail |-> "none"]

Outcomes == {"open", "writer", "reader", "ok"}

\* open() settles in requestSerialPort; its catch only logs
ReqOpen(o) ==
  /\ connPc = "reqOpen"
  /\ LET r == Acquire(connPort, serialPort, o, Session) IN
     /\ writer' = r.writer
     /\ reader' = r.reader
     /\ portOpen' = r.portOpen
     /\ wLocked' = r.wLocked
     /\ rLocked' = r.rLocked
     /\ connFail' = r.fail
     /\ connResult' = IF r.threw THEN "false" ELSE "true"
  /\ connPc' = "idle"
  /\ UNCHANGED <<serialPort, connKind, connPort, lastClose, lockVars, procVars,
                 intervalShowLiveData, pendingReads, lastTimer>>
  /\ UNCHANGED dataVars

\* reconnectSerialPort() is called: without a port it returns false; else it
\* releases the writer and the reader and awaits the port's close()
ReconnectStart ==
  /\ connPc = "idle"
  /\ connKind' = "reconnect"
  /\ IF ~Held(serialPort)
       THEN /\ connPc' = "idle"
            /\ connResult' = "false"
            /\ connFail' = "noport"
            /\ UNCHANGED <<connPort, handleVars, pendingReads, io>>
       ELSE /\ connPc' = "recClose"
            /\ connResult' = "none"
            /\ connFail' = "none"
            /\ connPort' = serialPort
            /\ writer' = None
            /\ reader' = None
            /\ wLocked' = IF Held(writer) THEN wLocked \ {writer} ELSE wLocked
            /\ rLocked' = IF Held(reader) THEN rLocked \ {reader} ELSE rLocked
            /\ ReleaseReads(reader, None)
            /\ UNCHANGED <<serialPort, portOpen>>
  /\ UNCHANGED <<lastClose, lockVars, pc, kind, arg, nest, result, written,
                 intervalShowLiveData, lastTimer>>
  /\ UNCHANGED dataVars

\* close() settles in reconnectSerialPort: a rejection goes to the catch
\* (serialPort = null); else open() is awaited
RecClose ==
  /\ connPc = "recClose"
  /\ IF PortCloses(connPort, portOpen, wLocked, rLocked)
       THEN /\ portOpen' = portOpen \ {connPort}
            /\ connPc' = "recOpen"
            /\ UNCHANGED <<serialPort, connResult, connFail>>
       ELSE /\ connPc' = "idle"
            /\ serialPort' = CatchPort(serialPort)
            /\ connResult' = "false"
            /\ connFail' = "close"
            /\ UNCHANGED portOpen
  /\ UNCHANGED <<connKind, connPort, lastClose, writer, reader, wLocked, rLocked,
                 lockVars, procVars, intervalShowLiveData, pendingReads, lastTimer>>
  /\ UNCHANGED dataVars

\* open() settles in reconnectSerialPort; its catch clears serialPort
RecOpen(o) ==
  /\ connPc = "recOpen"
  /\ LET r == Acquire(connPort, connPort, o, Session) IN
     /\ writer' = r.writer
     /\ reader' = r.reader
     /\ portOpen' = r.portOpen
     /\ wLocked' = r.wLocked
     /\ rLocked' = r.rLocked
     /\ connFail' = r.fail
     /\ connResult' = IF r.threw THEN "false" ELSE "true"
     /\ serialPort' = IF r.fail = "open" THEN CatchPort(serialPort)
                      ELSE IF r.threw THEN CatchPort(connPort)
                      ELSE connPort
  /\ connPc' = "idle"
  /\ UNCHANGED <<connKind, connPort, lastClose, lockVars, procVars,
                 intervalShowLiveData, pendingReads, lastTimer>>
  /\ UNCHANGED dataVars

---------------------------------------------------------------------------
(* flushSerialReader *)

FlushBudgetNeverUsed(e) == FALSE

\* `Date.now() - startTime > timeoutMs`, in clock steps
FlushBudgetUsed(e) == e > FlushBudget

\* the catch inside the loop: the timeout ends the loop, any other error
\* is dropped and the loop goes on
FlushCatch(e) == IF e = "Timeout" THEN "break" ELSE "continue"

\* everything flushSerialReader leaves alone
flushRest == <<lockVars, procVars, handleVars, intervalShowLiveData, lastTimer,
               connVars, frameVars, sampleVars, parseVars, liveVars>>

\* how the function ends: the loop was left (why), or an error reached the
\* outer catch, which drops it
FlushReturns(why) ==
  /\ flushPc' = "done"
  /\ flushEnd' = why

\* One pass of `while (true)` with e clock steps used and reads pending: the
\* budget check, then reader.read() raced against the timer.  Without a
\* reader, reader.read() throws at once and the loop spins, synchronously,
\* until the budget check ends it.
FlushIterate(e, reads) ==
  IF FlushBudgetUsed(e)
    THEN /\ FlushReturns("budget")
         /\ flushElapsed' = e
         /\ pendingReads' = reads
  ELSE IF reader = None
    THEN /\ pendingReads' = reads
         /\ flushElapsed' = FlushBudget + 1
         /\ IF FlushCatch("TypeError") = "continue"
              THEN IF FlushBudgetUsed(FlushBudget + 1)
                     THEN FlushReturns("budget")
                     ELSE flushPc' = "spinning" /\ flushEnd' = "none"
              ELSE FlushReturns("error")
  ELSE /\ flushPc' = "reading"
       /\ flushEnd' = "none"
       /\ flushElapsed' = e
       /\ pendingReads' = Append(reads, Flush)

\* flushSerialReader() is called: nothing without a reader, else the loop
FlushCall ==
  /\ flushPc \in {"idle", "done"}
  /\ IF ~Held(reader)
       THEN /\ FlushReturns("noreader")
            /\ flushElapsed' = 0
            /\ UNCHANGED pendingReads
       ELSE FlushIterate(0, pendingReads)
  /\ UNCHANGED flushRest

flushSerialReader ==
  /\ FlushCall
  /\ UNCHANGED setupVars

\* the flush's read is the oldest and the device delivers to it: data (the
\* loop goes on) or the end of the stream (the loop ends)
FlushChunk(d) ==
  /\ flushPc = "reading"
  /\ pendingReads # <<>>
  /\ Head(pendingReads) = Flush
  /\ ~MicrotaskPending
  /\ IF d = "eos"
       THEN /\ FlushReturns("eos")
            /\ pendingReads' = Tail(pendingReads)
            /\ UNCHANGED flushElapsed
       ELSE FlushIterate(flushElapsed, Tail(pendingReads))
  /\ UNCHANGED flushRest
  /\ UNCHANGED setupVars

\* the flush's read was rejected by reader.releaseLock()
FlushRejected ==
  /\ flushPc = "reading"
  /\ \A i \in 1..Len(pendingReads) : pendingReads[i] # Flush
  /\ IF FlushCatch("TypeError") = "continue"
       THEN FlushIterate(flushElapsed, pendingReads)
       ELSE /\ FlushReturns("error")
            /\ UNCHANGED <<flushElapsed, pendingReads>>
  /\ UNCHANGED flushRest
  /\ UNCHANGED setupVars

\* the timer of the race fires, at the end of the budget: the loop ends and
\* the read stays pending
FlushTimeout ==
  /\ flushPc = "reading"
  /\ flushElapsed >= FlushBudget
  /\ ~MicrotaskPending
  /\ IF FlushCatch("Timeout") = "break"
       THEN FlushReturns("timeout")
       ELSE FlushReturns("error")
  /\ pendingReads' =
       IF Zombies < MaxZombies
         THEN [i \in 1..Len(pendingReads) |->
                 IF pendingReads[i] = Flush THEN Zombie ELSE pendingReads[i]]
         ELSE SelectSeq(pendingReads, LAMBDA x : x # Flush)
  /\ UNCHANGED flushElapsed
  /\ UNCHANGED flushRest
  /\ UNCHANGED setupVars

\* a clock step passes while the flush waits
FlushTime ==
  /\ flushPc = "reading"
  /\ flushElapsed <= FlushBudget
  /\ flushElapsed' = flushElapsed + 1
  /\ UNCHANGED <<flushPc, flushEnd, pendingReads>>
  /\ UNCHANGED flushRest
  /\ UNCHANGED setupVars

---------------------------------------------------------------------------
(* The read loop of readMsg, character by character *)

Alphabet   == {"1", ";", " "}
Whitespace == {" "}
Frames     == UNION {[1..n -> Alphabet] : n \in 0..MaxFrame}

\* chunk.includes(';;')
HasTerminator(chunk) ==
  \E i \in 1..(Len(chunk) - 1) : chunk[i] = ";" /\ chunk[i + 1] = ";"

\* response.trim()
RECURSIVE Trim(_)
Trim(str) ==
  IF str = <<>> THEN <<>>
  ELSE IF Head(str) \in Whitespace THEN Trim(Tail(str))
  ELSE IF str[Len(str)] \in Whitespace THEN Trim(SubSeq(str, 1, Len(str) - 1))
  ELSE str

\* everything but the read loop followed here
restVars == <<handleVars, lockVars, procVars, intervalShowLiveData, pendingReads,
              lastTimer, connVars>>

\* reader.read() resolves with the next n characters of the response: the
\* chunk is appended, and the loop ends if the chunk holds ';;'
FrameChunk(n) ==
  /\ readPc = "reading"
  /\ n \in 1..Len(wire)
  /\ LET chunk == SubSeq(wire, 1, n) IN
     /\ response' = response \o chunk
     /\ wire' = SubSeq(wire, n + 1, Len(wire))
     /\ IF HasTerminator(chunk)
          THEN /\ readPc' = "returned"
               /\ readResult' = Trim(response \o chunk)
          ELSE UNCHANGED <<readPc, readResult>>
  /\ UNCHANGED <<restVars, sampleVars, parseVars, liveVars, flushVars, setupVars>>

\* the 40 ms timer wins the race: '' is returned
FrameTimeout ==
  /\ readPc = "reading"
  /\ readPc' = "timedout"
  /\ readResult' = <<>>
  /\ UNCHANGED <<wire, response, restVars, sampleVars, parseVars, liveVars, flushVars, setupVars>>

---------------------------------------------------------------------------
(* The telemetry response in updateLiveData: parse, validate, forward, record *)

Epoch      == 1000     \* Date.now() when the page starts following the clock
ThrottleMs == 100      \* `timeSinceLastUIUpdate >= 100`

Null == <<"null">>
UiInputs ==
  <<"systemModeInput", "PositionInputTR", "PositionInputEL", "VelocityInputTR",
    "VelocityInputEL", "CurrentInputTR", "CurrentInputEL">>

\* tRead.split(';')
RECURSIVE Split(_)
Split(str) ==
  IF \A i \in 1..Len(str) : str[i] # ";"
    THEN <<str>>
    ELSE LET i == CHOOSE j \in 1..Len(str) :
                    str[j] = ";" /\ \A k \in 1..(j - 1) : str[k] # ";"
         IN <<SubSeq(str, 1, i - 1)>> \o Split(SubSeq(str, i + 1, Len(str)))

\* !isNaN(Number(trimmed)) for a trimmed, non-empty field: digits, or the
\* literal Infinity, convert to a number
ConvertsToNumber(f) ==
  f # <<>> /\ (f = <<"Infinity">> \/ \A i \in 1..Len(f) : f[i] = "7")

\* the callback of .map(): '' gives null, a numeric text its number, any
\* other text itself
ParseField(val) ==
  LET trimmed == Trim(val) IN
  IF trimmed = <<>> THEN Null
  ELSE IF ConvertsToNumber(trimmed) THEN <<"number", trimmed>>
  ELSE <<"string", trimmed>>

\* values[i] ?? null, for the seven fields read by index
SevenOf(str) ==
  LET values == Split(str) IN
  [i \in 1..7 |-> IF i <= Len(values) THEN ParseField(values[i]) ELSE Null]

AllValuesValidIfPresent(seven) ==
  \A i \in 1..7 : seven[i] = Null \/ seven[i][1] = "number"

\* `val !== null && typeof val === 'number' && !isNaN(val)` for every value
AllValuesValid(seven) ==
  \A i \in 1..7 : seven[i] # Null /\ seven[i][1] = "number"

\* `allValuesValid && timeSinceLastUIUpdate >= 100`
Forwards(valid, since) == valid /\ since >= ThrottleMs

RecordsIfForwarded(rec, fwd) == rec /\ fwd

\* `if (shouldRecordData)`
Records(rec, fwd) == rec

\* posTr, velTr, curTr, posEl, velEl, curEl, as pushed to rows (the elapsed
\* time pushed to rows.time with them is not followed)
RowOf(seven) == <<seven[2], seven[4], seven[6], seven[3], seven[5], seven[7]>>

\* updateLiveData after its readMsg has returned str: `now` is read, then
\* the clock again, skew milliseconds later
ProcessSample(str, skew) ==
  /\ clock + skew <= Epoch + MaxElapsed
  /\ shouldRecordData => rowsLen < MaxRows
  /\ tRead' = str
  /\ clock' = clock + skew
  /\ IF str = <<>>
       THEN /\ uiUpdates' = <<>>
            /\ pushed' = <<>>
            /\ UNCHANGED <<lastUIUpdateTime, rowsLen>>
       ELSE LET seven == SevenOf(str)
                now == clock
                timeSinceLastUIUpdate == (clock + skew) - lastUIUpdateTime
                fwd == Forwards(AllValuesValid(seven), timeSinceLastUIUpdate)
            IN /\ IF fwd
                    THEN /\ uiUpdates' = [i \in 1..7 |-> <<UiInputs[i], seven[i]>>]
                         /\ lastUIUpdateTime' = now
                    ELSE /\ uiUpdates' = <<>>
                         /\ UNCHANGED lastUIUpdateTime
               /\ IF Records(shouldRecordData, fwd)
                    THEN /\ pushed' = RowOf(seven)
                         /\ rowsLen' = rowsLen + 1
                    ELSE /\ pushed' = <<>>
                         /\ UNCHANGED rowsLen
  /\ UNCHANGED <<shouldRecordData, restVars, frameVars, parseVars, liveVars, flushVars, setupVars>>

\* recordData(): the flag is toggled; turning it on empties the series
recordData ==
  /\ shouldRecordData' = ~shouldRecordData
  /\ rowsLen' = IF ~shouldRecordData THEN 0 ELSE rowsLen
  /\ UNCHANGED <<lastUIUpdateTime, clock, tRead, uiUpdates, pushed, restVars,
                 frameVars, parseVars, liveVars, flushVars, setupVars>>

\* d milliseconds pass
Advance(d) ==
  /\ clock + d <= Epoch + MaxElapsed
  /\ clock' = clock + d
  /\ UNCHANGED <<lastUIUpdateTime, shouldRecordData, rowsLen, tRead, uiUpdates,
                 pushed, restVars, frameVars, parseVars, liveVars, flushVars, setupVars>>

\* the fields a response is built from: a number, nothing, a blank, a
\* word, a number that is not finite
GoodField == <<"7">>
Fields == {GoodField, <<>>, <<" ">>, <<"x">>, <<"Infinity">>}

RECURSIVE Join(_)
Join(fs) ==
  IF Len(fs) = 0 THEN <<>>
  ELSE IF Len(fs) = 1 THEN fs[1]
  ELSE fs[1] \o <<";">> \o Join(Tail(fs))

\* the responses the device is taken to send: up to MaxFields numbers, or
\* seven fields of which one is not a number, or numbers followed by the
\* ';;' that ends a frame
GoodLists == {[i \in 1..n |-> GoodField] : n \in 1..MaxFields}
FaultLists ==
  {[i \in 1..7 |-> IF i = k THEN f ELSE GoodField] : k \in 1..7, f \in Fields}
Responses ==
  {Join(fs) : fs \in GoodLists \cup FaultLists}
    \cup {Join(fs) \o <<";", ";">> : fs \in GoodLists}

---------------------------------------------------------------------------
(* parsePairs and getValue *)

Digits == <<"0", "1", "2", "3", "4", "5", "6", "7", "8", "9">>
IsDigit(ch) == \E i \in 1..10 : Digits[i] = ch
DigitValue(ch) == (CHOOSE i \in 1..10 : Digits[i] = ch) - 1
AllDigits(str) == str # <<>> /\ \A i \in 1..Len(str) : IsDigit(str[i])

\* the value of a run of decimal digits
RECURSIVE Decimal(_)
Decimal(str) ==
  IF str = <<>> THEN 0
  ELSE 10 * Decimal(SubSeq(str, 1, Len(str) - 1)) + DigitValue(str[Len(str)])

NaN == <<"NaN">>

\* Number(text): blanks around the text are ignored, the empty text is 0,
\* an optionally signed run of digits is its value, anything else is NaN
ToNumber(str) ==
  LET t == Trim(str) IN
  IF t = <<>> THEN <<"number", 0>>
  ELSE IF AllDigits(t) THEN <<"number", Decimal(t)>>
  ELSE IF Head(t) = "-" /\ AllDigits(Tail(t)) THEN <<"number", 0 - Decimal(Tail(t))>>
  ELSE NaN

\* String(v) for a number or a string
RECURSIVE ToChars(_)
ToChars(n) ==
  IF n < 0 THEN <<"-">> \o ToChars(0 - n)
  ELSE IF n < 10 THEN <<Digits[n + 1]>>
  ELSE ToChars(n \div 10) \o <<Digits[(n % 10) + 1]>>
StringOf(v) == IF v[1] = "number" THEN ToChars(v[2]) ELSE v[2]

TruthyAll(t) == TRUE

\* Boolean(token), the test of .filter(Boolean): '' is dropped
Truthy(t) == t # <<>>

\* rawKey.startsWith('R1[')
StartsWithR1(str) == Len(str) >= 3 /\ SubSeq(str, 1, 3) = <<"R", "1", "[">>

\* rawKey.match(/\[(\d+)\]/): the digits of the leftmost '[digits]', or null
MatchIndex(str) ==
  LET hits == {i \in 1..Len(str) :
                 /\ str[i] = "["
                 /\ \E j \in (i + 2)..Len(str) :
                       /\ str[j] = "]"
                       /\ \A k \in (i + 1)..(j - 1) : IsDigit(str[k])}
  IN IF hits = {} THEN Null
     ELSE LET i == CHOOSE h \in hits : \A g \in hits : h <= g
              j == CHOOSE e \in (i + 2)..Len(str) :
                      /\ str[e] = "]"
                      /\ \A k \in (i + 1)..(e - 1) : IsDigit(str[k])
          IN SubSeq(str, i + 1, j - 1)

KeyOfRaw(rawKey) == <<"string", rawKey>>

\* the key of a pair: the register index for 'R1[n]...', else the token
KeyOf(rawKey) ==
  IF StartsWithR1(rawKey)
    THEN LET m == MatchIndex(rawKey) IN
         IF m # Null THEN <<"number", Decimal(m)>> ELSE <<"string", rawKey>>
    ELSE <<"string", rawKey>>

ValueAlwaysNumber(value) == ToNumber(value)

\* `isNaN(numVal) ? value : numVal`
ValueOf(value) ==
  IF ToNumber(value) = NaN THEN <<"string", value>> ELSE ToNumber(value)

\* the loop `for (i = 0; i < parts.length; i += 2)`, from index i (1-based)
RECURSIVE PairsFrom(_, _)
PairsFrom(parts, i) ==
  IF i > Len(parts) THEN <<>>
  ELSE IF i + 1 > Len(parts) THEN PairsFrom(parts, i + 2)
  ELSE <<<<KeyOf(parts[i]), ValueOf(parts[i + 1])>>>> \o PairsFrom(parts, i + 2)

\* parsePairs(input)
ParsePairsOf(str) ==
  PairsFrom(SelectSeq(Split(str), LAMBDA t : Truthy(t)), 1)

\* getValue(pairs, key): the value of the first pair whose key stringifies
\* to the same text as key, or null
GetValueOf(ps, key) ==
  LET hits == {i \in 1..Len(ps) : StringOf(ps[i][1]) = StringOf(key)} IN
  IF hits = {} THEN Null
  ELSE ps[CHOOSE h \in hits : \A g \in hits : h <= g][2]

\* parsePairs(input) is called
parsePairs ==
  /\ parsePc = "text"
  /\ pairs' = ParsePairsOf(input)
  /\ parsePc' = "parsed"
  /\ UNCHANGED <<input, lookupKey, lookupResult, restVars, frameVars, sampleVars,
                 liveVars, flushVars, setupVars>>

\* getValue(pairs, key) is called
getValue(key) ==
  /\ parsePc \in {"parsed", "looked"}
  /\ lookupKey' = key
  /\ lookupResult' = GetValueOf(pairs, key)
  /\ parsePc' = "looked"
  /\ UNCHANGED <<input, pairs, restVars, frameVars, sampleVars, liveVars, flushVars, setupVars>>

\* the tokens texts are built from: a register, a number, a name, nothing,
\* a blank, a register without an index
TokReg   == <<"R", "1", "[", "3", "1", "]">>
TokNum   == <<"-", "1", "2", "2", "6">>
TokName  == <<"f", "o", "o">>
TokBar   == <<"b", "a", "r">>
TokBlank == <<" ">>
TokNoIdx == <<"R", "1", "[", "]">>
Tokens   == {TokReg, TokNum, TokName, <<>>, TokBlank, TokNoIdx}

\* "R1[10]=0;R1[31]=-1226;" and "foo=bar;"
TextAssignPairs ==
  <<"R", "1", "[", "1", "0", "]", "=", "0", ";">> \o TokReg \o <<"=">> \o TokNum \o <<";">>
TextAssignName == TokName \o <<"=">> \o TokBar \o <<";">>
\* "R1[10];0;R1[31];-1226;" and "foo;bar;"
TextTokenPairs ==
  <<"R", "1", "[", "1", "0", "]", ";", "0", ";">> \o TokReg \o <<";">> \o TokNum \o <<";">>
TextTokenName == TokName \o <<";">> \o TokBar \o <<";">>

\* the texts given to parsePairs: up to MaxTokens tokens joined by ';', and
\* the four texts above
ParseInputs ==
  {Join(ts) : ts \in UNION {[1..n -> Tokens] : n \in 0..MaxTokens}}
    \cup {TextAssignPairs, TextAssignName, TextTokenPairs, TextTokenName}

LookupKeys ==
  {<<"string", TokName>>, <<"string", TokReg>>, <<"string", TokBlank>>,
   <<"string", TokNoIdx>>, <<"number", 31>>}

---------------------------------------------------------------------------
(* connectToggle, unchecked: the user disconnects *)

MsgMotionOff == <<"R1[3]=0", CR>>

\* a synchronous run that has made one call and is about to make the next
SyncRun == togglePc = "sync"

\* everything connectToggle leaves alone besides what its calls change
toggleRest == <<zeroPc, attempts, zeroReads, zeroText, zeroSent, zeroEnd>>

\* connectToggle(button) with button.checked false: showLiveData(false),
\* not awaited, runs up to its `await sendMsg('eo=1;')`
ToggleOff ==
  /\ togglePc = "idle"
  /\ ~MicrotaskPending
  /\ ShowCall(1, FALSE)
  /\ togglePc' = "sync"
  /\ UNCHANGED toggleRest

\* in the same run, sendMsg('R1[3]=0\r') up to its first await
ToggleSend ==
  /\ togglePc = "sync"
  /\ CallLock(2, "sendMsg", MsgMotionOff)
  /\ togglePc' = "sending"
  /\ UNCHANGED <<intervalShowLiveData, frameVars, sampleVars, parseVars, liveVars,
                 flushVars, toggleRest>>

\* the continuation of `await sendMsg(...)`: closeSerialPort(), unless
\* sendMsg rejected, which ends connectToggle with that error
ToggleClose ==
  /\ togglePc = "sending"
  /\ pc[2] = "done"
  /\ IF result[2] \in Errors
       THEN /\ togglePc' = "failed"
            /\ UNCHANGED <<handleVars, lockVars, procVars, intervalShowLiveData,
                           pendingReads, lastTimer, connVars>>
       ELSE /\ togglePc' = "closed"
            /\ ClosePort
  /\ UNCHANGED <<frameVars, sampleVars, parseVars, liveVars, flushVars, toggleRest>>

---------------------------------------------------------------------------
(* setZeroAngles *)

MaxAttempts == 5       \* `const maxAttempts = 5`

KeyOffsetTr == <<"S", "1", "[", "1", "7", "]">>
KeyAngleTr  == <<"A", "X", "1", ".", "p", "x">>
KeyOffsetEl == <<"S", "2", "[", "1", "7", "]">>
KeyAngleEl  == <<"A", "X", "2", ".", "p", "x">>
ZeroKeys    == <<KeyOffsetTr, KeyAngleTr, KeyOffsetEl, KeyAngleEl>>

\* curOffsetTr, curAngleTr, curOffsetEl, curAngleEl: getValue(pairs, key) on
\* the pairs of the response
ZeroValues(str) ==
  [i \in 1..4 |-> GetValueOf(ParsePairsOf(str), <<"string", ZeroKeys[i]>>)]

ZeroValidTrOnly(vals) ==
  \A i \in 1..2 : vals[i] # Null /\ vals[i][1] = "number"

\* `typeof v === 'number' && !isNaN(v)` for each of the four values
ZeroValid(vals) ==
  \A i \in 1..4 : vals[i] # Null /\ vals[i][1] = "number"

\* motorToggle(motorToggleElement) with the toggle just unchecked
MotorOffCommands == <<<<"R1[3]=", 1>>, <<"R1[1]=", 0>>>>

\* a - b on values: null counts as 0, a string as Number(string), and the
\* difference is NaN if either is
Minus(a, b) ==
  LET num(v) == IF v = Null THEN <<"number", 0>>
                ELSE IF v[1] = "number" THEN v
                ELSE ToNumber(v[2])
  IN IF num(a) = NaN \/ num(b) = NaN THEN NaN
     ELSE <<"number", num(a)[2] - num(b)[2]>>

\* `newOffset > 0.0`: false for NaN
Positive(v) == v # NaN /\ v[2] > 0

\* the arguments of the sendMsg calls made for the new offsets, in order
ZeroCommands(vals) ==
  LET newOffsetTr == Minus(vals[1], vals[2])
      newOffsetEl == Minus(vals[3], vals[4])
  IN <<<<"S1[17]=", newOffsetTr>>, <<"S2[17]=", newOffsetEl>>,
       <<"S1[18]=", IF Positive(newOffsetTr) THEN 0 ELSE 0 - 1>>,
       <<"S2[18]=", IF Positive(newOffsetEl) THEN 0 ELSE 0 - 1>>,
       <<"s1[1]=", 0>>, <<"s1[1]=", 5>>, <<"s2[1]=", 0>>, <<"s2[1]=", 5>>>>

\* everything setZeroAngles leaves alone besides what its calls change
zeroRest == <<togglePc>>

\* setZeroAngles() with a port and the dialog confirmed: showLiveData(false),
\* not awaited, runs up to its await; then the 50 ms sleep
ZeroStart ==
  /\ zeroPc = "idle"
  /\ Held(serialPort)
  /\ ~MicrotaskPending
  /\ ShowCall(1, FALSE)
  /\ zeroPc' = "sleep"
  /\ attempts' = 0
  /\ zeroReads' = 0
  /\ zeroText' = <<>>
  /\ zeroSent' = <<>>
  /\ zeroEnd' = "none"
  /\ UNCHANGED zeroRest

\* the sleep is over: flushSerialReader() is called and awaited
ZeroFlush ==
  /\ zeroPc = "sleep"
  /\ ~MicrotaskPending
  /\ FlushCall
  /\ zeroPc' = "flush1"
  /\ UNCHANGED <<attempts, zeroReads, zeroText, zeroSent, zeroEnd, zeroRest>>

\* readMsg('S1[17];AX1.px;S2[17];AX2.px;') is called, after the flush or
\* 100 ms after a failed attempt
ZeroRead ==
  /\ \/ zeroPc = "flush1" /\ flushPc = "done"
     \/ zeroPc = "retry" /\ ~MicrotaskPending
  /\ attempts < MaxAttempts
  /\ CallLock(2, "readMsg", MsgReadOffsets)
  /\ zeroReads' = zeroReads + 1
  /\ zeroPc' = "reading"
  /\ UNCHANGED <<intervalShowLiveData, frameVars, sampleVars, parseVars, liveVars,
                 flushVars, attempts, zeroText, zeroSent, zeroEnd, zeroRest>>

\* readMsg has returned str ('' unless a frame was read): the values are
\* looked up and checked.  Valid values end the loop and the commands are
\* sent in the same run (motorOn: the motor toggle was checked); the sendMsg
\* calls go through the lock as those of Call do and are over by the end of
\* the 200 ms sleep, and only their arguments are kept here.  Otherwise the
\* attempt is counted, and the fifth failure ends the procedure.
ZeroParse(str, motorOn) ==
  /\ zeroPc = "reading"
  /\ pc[2] = "done"
  /\ (str = <<>>) <=> (result[2] = "")
  /\ zeroText' = str
  /\ LET vals == ZeroValues(str) IN
     IF ZeroValid(vals)
       THEN /\ zeroSent' = (IF motorOn THEN MotorOffCommands ELSE <<>>)
                             \o ZeroCommands(vals)
            /\ zeroPc' = "written"
            /\ UNCHANGED <<attempts, zeroEnd>>
       ELSE /\ attempts' = attempts + 1
            /\ UNCHANGED zeroSent
            /\ IF attempts + 1 < MaxAttempts
                 THEN /\ zeroPc' = "retry"
                      /\ UNCHANGED zeroEnd
                 ELSE /\ zeroPc' = "done"
                      /\ zeroEnd' = "gaveup"
  /\ UNCHANGED <<handleVars, lockVars, procVars, intervalShowLiveData, pendingReads,
                 lastTimer, connVars, frameVars, sampleVars, parseVars, liveVars,
                 flushVars, zeroReads, zeroRest>>

\* the 200 ms sleep is over: the second flushSerialReader()
ZeroSettle ==
  /\ zeroPc = "written"
  /\ ~MicrotaskPending
  /\ FlushCall
  /\ zeroPc' = "flush2"
  /\ UNCHANGED <<attempts, zeroReads, zeroText, zeroSent, zeroEnd, zeroRest>>

\* the flush is over: showLiveData(true), not awaited, and the procedure ends
ZeroRestart ==
  /\ zeroPc = "flush2"
  /\ flushPc = "done"
  /\ ShowCall(1, TRUE)
  /\ zeroPc' = "done"
  /\ zeroEnd' = "set"
  /\ UNCHANGED <<attempts, zeroReads, zeroText, zeroSent, zeroRest>>

\* the responses the device is taken to send to the request: the four
\* registers with their values, the same with the last value not a number
\* or the first one missing, and a telemetry response left over from the poll
ZeroTextOf(v) ==
  Join(<<KeyOffsetTr, v[1], KeyAngleTr, v[2], KeyOffsetEl, v[3], KeyAngleEl, v[4],
         <<>>, <<>>>>)
ZeroGood == {<<<<"5">>, <<"3">>, <<"3">>, <<"5">>>>, <<<<"3">>, <<"5">>, <<"5">>, <<"3">>>>}
ZeroFaulty == {<<<<"5">>, <<"3">>, <<"3">>, <<"x">>>>, <<<<>>, <<"3">>, <<"3">>, <<"5">>>>}
ZeroResponses ==
  {ZeroTextOf(v) : v \in ZeroGood \cup ZeroFaulty}
    \cup {Join([i \in 1..7 |-> GoodField]) \o <<";", ";">>}

---------------------------------------------------------------------------
(* Specifications *)

\* the messages a call of kind k is made with
MessagesOf(k) == IF k = "readMsg" THEN {MsgReadOffsets} ELSE SendMessages

\* no read loop is followed byte by byte
InitNoFrame ==
  /\ wire = <<>> /\ response = <<>>
  /\ readPc = "idle" /\ readResult = <<>>

\* the page has processed no telemetry response yet
InitSample ==
  /\ lastUIUpdateTime = 0
  /\ shouldRecordData = FALSE
  /\ rowsLen = 0
  /\ clock = Epoch
  /\ tRead = <<>>
  /\ uiUpdates = <<>>
  /\ pushed = <<>>

\* parsePairs has not been called
InitNoParse ==
  /\ input = <<>>
  /\ pairs = <<>>
  /\ parsePc = "none"
  /\ lookupKey = Null
  /\ lookupResult = Null

\* showLiveData and flushSerialReader have not been called; in the
\* specifications that do not follow the timers, intervalShowLiveData tells
\* whether the one timer runs
InitNoLive ==
  /\ timers = {}
  /\ showPc = [c \in Callers |-> "none"]
  /\ liveWanted = "none"
  /\ flushPc = "idle"
  /\ flushElapsed = 0
  /\ flushEnd = "none"

\* neither connectToggle nor setZeroAngles has been called
InitNoSetup ==
  /\ togglePc = "idle"
  /\ zeroPc = "idle"
  /\ attempts = 0
  /\ zeroReads = 0
  /\ zeroText = <<>>
  /\ zeroSent = <<>>
  /\ zeroEnd = "none"

InitData == InitNoFrame /\ InitSample /\ InitNoParse /\ InitNoLive /\ InitNoSetup

\* the lock and call state of a page that has issued no call yet
InitLock ==
  /\ serialLockDepth = 0
  /\ liveDataPauseRequested = FALSE
  /\ liveDataInProgress = FALSE
  /\ liveDataIdleResolvers = {}
  /\ pc = [p \in Procs |-> "idle"]
  /\ kind = [p \in Procs |-> IF p = Tick THEN "tick" ELSE "none"]
  /\ arg = [p \in Procs |-> IF p = Tick THEN MsgLiveData ELSE <<>>]
  /\ nest = [p \in Procs |-> 0]
  /\ io = [p \in Procs |-> "pending"]
  /\ result = [p \in Procs |-> "none"]
  /\ written = [p \in Procs |-> <<>>]
  /\ pendingReads = <<>>
  /\ lastTimer = "none"
  /\ lastClose = "none"

InitCalls == InitLock /\ InitData

\* Spec starts where connectToggle has connected port 1 (requestSerialPort
\* returned true), with the telemetry timer running or not yet started
Init ==
  /\ InitCalls
  /\ serialPort = 1 /\ writer = 1 /\ reader = 1
  /\ portOpen = {1} /\ wLocked = {1} /\ rLocked = {1}
  /\ intervalShowLiveData \in {None, 1}
  /\ connPc = "idle" /\ connKind = "request" /\ connPort = 1
  /\ connResult = "true" /\ connFail = "none"

Next ==
  \/ \E c \in Callers, k \in Kinds : \E m \in MessagesOf(k) : Call(c, k, m)
  \/ \E c \in Callers : Resume(c)
  \/ TimerFire
  \/ \E p \in Procs, o \in {"ok"} \cup WriteErrors : WriteDone(p, o)
  \/ \E c \in Callers : Unwind(c)
  \/ \E ch \in {"partial", "final"} : ReadChunk(ch)
  \/ \E p \in Procs : ReadTimeout(p)

Spec == Init /\ [][Next]_vars

EmptySession ==
  [writer |-> None, reader |-> None, serialPort |-> None,
   portOpen |-> {}, wLocked |-> {}, rLocked |-> {}, threw |-> FALSE]

\* SpecPartial starts where requestSerialPort or reconnectSerialPort has ended
\* on port 1, with success or with any of its failures: the session is open,
\* or holds only what was acquired before the failure (a reconnect that
\* succeeded leaves the session of a request that succeeded)
InitSession ==
  /\ InitCalls
  /\ \E k \in {"request", "reconnect"}, o \in Outcomes :
       LET r == Acquire(1, 1, o, EmptySession) IN
       /\ k = "reconnect" => r.threw
       /\ writer = r.writer /\ reader = r.reader
       /\ portOpen = r.portOpen /\ wLocked = r.wLocked /\ rLocked = r.rLocked
       /\ serialPort = IF k = "reconnect" /\ r.threw THEN CatchPort(1) ELSE 1
       /\ connKind = k /\ connPort = 1 /\ connPc = "idle"
       /\ connResult = (IF r.threw THEN "false" ELSE "true")
       /\ connFail = r.fail
  /\ intervalShowLiveData \in {None, 1}

\* the calls of Spec in any session: without a reader or a writer the tick's
\* readMsg returns at once
NextPartial ==
  \/ Next
  \/ TickFinally

SpecPartial == InitSession /\ [][NextPartial]_vars

\* the calls of Spec and NextPartial, with closeSerialPort callable at any
\* point of them; SpecClose starts in the open session of Spec
NextClose ==
  \/ NextPartial
  \/ closeSerialPort
  \/ \E p \in Procs : ReadRejected(p)

SpecClose == Init /\ [][NextClose]_vars

\* SpecConn starts at the page load: no port has been requested
InitConn ==
  /\ InitCalls
  /\ serialPort = None /\ writer = None /\ reader = None
  /\ portOpen = {} /\ wLocked = {} /\ rLocked = {}
  /\ intervalShowLiveData = None
  /\ connPc = "idle" /\ connKind = "none" /\ connPort = None
  /\ connResult = "none" /\ connFail = "none"

NextConn ==
  \/ RequestStart
  \/ \E p \in Ports \cup {None} : ReqPort(p)
  \/ \E o \in Outcomes : ReqOpen(o)
  \/ ReconnectStart
  \/ RecClose
  \/ \E o \in Outcomes : RecOpen(o)
  \/ closeSerialPort

SpecConn == InitConn /\ [][NextConn]_vars

\* the open session of Spec, all calls idle (the handles are those of Init)
Connected ==
  /\ serialPort = 1 /\ writer = 1 /\ reader = 1
  /\ portOpen = {1} /\ wLocked = {1} /\ rLocked = {1}
  /\ intervalShowLiveData = None
  /\ connPc = "idle" /\ connKind = "request" /\ connPort = 1
  /\ connResult = "true" /\ connFail = "none"

\* SpecFrame follows one readMsg from its first reader.read(): the device
\* sends any response of up to MaxFrame characters, in chunks of any size
InitFrame ==
  /\ InitLock
  /\ Connected
  /\ InitSample
  /\ InitNoParse
  /\ InitNoLive
  /\ InitNoSetup
  /\ wire \in Frames
  /\ response = <<>>
  /\ readPc = "reading"
  /\ readResult = <<>>

NextFrame ==
  \/ \E n \in 1..MaxFrame : FrameChunk(n)
  \/ FrameTimeout

SpecFrame == InitFrame /\ [][NextFrame]_vars

InitProcessing ==
  /\ InitLock
  /\ Connected
  /\ InitNoFrame
  /\ InitSample
  /\ InitNoParse
  /\ InitNoLive
  /\ InitNoSetup

\* SpecSample: telemetry responses of any shape are processed, with the
\* recording flag toggled and the clock advanced by a throttle interval
NextSample ==
  \/ \E str \in Responses : ProcessSample(str, 0)
  \/ recordData
  \/ Advance(ThrottleMs)

SpecSample == InitProcessing /\ [][NextSample]_vars

\* SpecThrottle: well-formed responses are processed at any millisecond
NextThrottle ==
  \/ \E skew \in 0..MaxSkew : ProcessSample(Join([i \in 1..7 |-> GoodField]), skew)
  \/ \E d \in {1, ThrottleMs - 1} : Advance(d)

SpecThrottle == InitProcessing /\ [][NextThrottle]_vars

\* SpecLive: the page is connected and the telemetry is started and stopped
\* at any point; the timers are the browser's
InitLive ==
  /\ InitCalls
  /\ Connected

NextLive ==
  \/ \E c \in Callers, state \in BOOLEAN : showLiveData(c, state)
  \/ \E c \in Callers : ShowResume(c)
  \/ \E c \in Callers : Resume(c)
  \/ \E t \in TimerIds : LiveTimerFire(t)
  \/ \E p \in Procs, o \in {"ok"} \cup WriteErrors : WriteDone(p, o)
  \/ \E ch \in {"partial", "final"} : ReadChunk(ch)
  \/ \E p \in Procs : ReadTimeout(p)

SpecLive == InitLive /\ [][NextLive]_vars

\* SpecFlush: flushSerialReader is callable at any point of the telemetry
\* poll, of the readMsg calls of one caller and of closeSerialPort
NextFlush ==
  \/ Call(1, "readMsg", MsgReadOffsets)
  \/ Resume(1)
  \/ TimerFire
  \/ TickFinally
  \/ \E p \in Procs, o \in {"ok"} \cup WriteErrors : WriteDone(p, o)
  \/ \E ch \in {"partial", "final"} : ReadChunk(ch)
  \/ \E p \in Procs : ReadTimeout(p)
  \/ \E p \in Procs : ReadRejected(p)
  \/ closeSerialPort
  \/ flushSerialReader
  \/ \E d \in {"data", "eos"} : FlushChunk(d)
  \/ FlushRejected
  \/ FlushTimeout
  \/ FlushTime

SpecFlush == Init /\ [][NextFlush]_vars

\* The event loop runs every queued continuation; time passes while the
\* flush waits, and the timer of its race fires once it is due and the
\* microtask queue is empty.  The device need not answer.
FairFlush ==
  /\ SpecFlush
  /\ WF_vars(FlushTime)
  /\ WF_vars(FlushRejected)
  /\ SF_vars(FlushTimeout)
  /\ WF_vars(TickFinally)
  /\ WF_vars(Resume(1))
  /\ \A p \in Procs :
        /\ WF_vars(ReadRejected(p))
        /\ WF_vars(io[p] # "pending" /\ WriteDone(p, "ok"))

\* SpecParse: parsePairs is applied to any text, and getValue to its result
InitParse ==
  /\ InitLock
  /\ Connected
  /\ InitNoFrame
  /\ InitSample
  /\ InitNoLive
  /\ InitNoSetup
  /\ input \in ParseInputs
  /\ pairs = <<>>
  /\ parsePc = "text"
  /\ lookupKey = Null
  /\ lookupResult = Null

NextParse ==
  \/ parsePairs
  \/ \E key \in LookupKeys : getValue(key)

SpecParse == InitParse /\ [][NextParse]_vars

\* SpecToggle: the page is connected and polling, and the user disconnects
\* at any point of the poll
NextToggle ==
  \/ ToggleOff
  \/ ToggleSend
  \/ ToggleClose
  \/ ~SyncRun /\ ShowResume(1)
  \/ ~SyncRun /\ Resume(1)
  \/ ~SyncRun /\ TimerFire
  \/ ~SyncRun /\ \E p \in Procs, o \in {"ok"} \cup WriteErrors : WriteDone(p, o)
  \/ ~SyncRun /\ \E ch \in {"partial", "final"} : ReadChunk(ch)
  \/ ~SyncRun /\ \E p \in Procs : ReadTimeout(p)
  \/ ~SyncRun /\ \E p \in Procs : ReadRejected(p)

InitToggle ==
  /\ Init
  /\ intervalShowLiveData # None

SpecToggle == InitToggle /\ [][NextToggle]_vars

\* SpecZero: the page is connected and polling, and setZeroAngles is run
\* once; writes succeed, the device answers or not
NextZero ==
  \/ ZeroStart
  \/ ZeroFlush
  \/ ZeroRead
  \/ \E str \in ZeroResponses \cup {<<>>}, motorOn \in BOOLEAN : ZeroParse(str, motorOn)
  \/ ZeroSettle
  \/ ZeroRestart
  \/ ShowResume(1)
  \/ \E c \in Callers : Resume(c)
  \/ TimerFire
  \/ \E p \in Procs : WriteDone(p, "ok")
  \/ \E ch \in {"partial", "final"} : ReadChunk(ch)
  \/ \E p \in Procs : ReadTimeout(p)
  \/ \E d \in {"data", "eos"} : FlushChunk(d)
  \/ FlushTimeout
  \/ FlushTime

SpecZero == InitToggle /\ [][NextZero]_vars

\* The event loop runs every queued continuation (Resume, Unwind) and, once
\* the microtask queue is empty, delivers every settled write and every
\* expired readMsg timeout; the device need not answer and nobody need call.
FairSpec ==
  /\ Spec
  /\ \A c \in Callers : WF_vars(Resume(c)) /\ WF_vars(Unwind(c))
  /\ \A p \in Procs :
        /\ SF_vars(\E o \in {"ok"} \cup WriteErrors : WriteDone(p, o))
        /\ SF_vars(ReadTimeout(p))

---------------------------------------------------------------------------
(* Claims *)

InCall(c) == pc[c] \notin {"idle", "done"}
OnWire(c) == pc[c] \in {"writing", "reading"}
\* p issues a write in this step
Writes(p) == Len(written'[p]) > Len(written[p])

\* C1: no telemetry tick is in flight while an operation run by
\* runWithSerialLock is on the wire.
C1_TickNeverSharesWire ==
  ~(liveDataInProgress /\ \E c \in Callers : OnWire(c))

\* C2: no command is written while a read left behind by an earlier command
\* (readMsg returned on its timeout) is still outstanding.
C2_NoWriteWhileReadOutstanding ==
  [][(\E p \in Procs : Writes(p)) => Zombies = 0]_vars

\* C3: whenever serialLockDepth > 0, liveDataPauseRequested is true, and no
\* step taken from such a state starts a tick or issues a tick write.
C3_PausedWhileLocked ==
  /\ [](serialLockDepth > 0 => liveDataPauseRequested)
  /\ [][serialLockDepth > 0 =>
          /\ ~Writes(Tick)
          /\ (~liveDataInProgress => ~liveDataInProgress')]_vars

C3_Witness ==
  /\ serialLockDepth > 0
  /\ lastTimer = "skipped"
  /\ pc[Tick] = "idle"

\* C4: a sendMsg(m) with a writer ends having written exactly m and one
\* carriage return, and that write is not issued while a tick is in flight.
C4_OneWriteOutsideTick ==
  [][\A c \in Callers :
       /\ (Writes(c) /\ kind'[c] = "sendMsg") => ~liveDataInProgress
       /\ (kind[c] = "sendMsg" /\ pc[c] = "writing" /\ pc'[c] = "done" /\ writer # None)
            => written[c] = <<Append(arg[c], CR)>>]_vars

\* C5: every runWithSerialLock call eventually starts its operation and
\* eventually returns.
C5_LockCallsTerminate ==
  \A c \in Callers :
     /\ (pc[c] \in {"lockWait", "lockReady"}) ~> (pc[c] = "writing")
     /\ InCall(c) ~> (pc[c] = "done")

C5_Witness ==
  \E c \in Callers :
     /\ pc[c] = "lockWait"
     /\ liveDataInProgress
     /\ intervalShowLiveData # None

\* C6: in a nested call the inner runWithSerialLock never waits, the call
\* completes, and when no other caller is in a call it leaves
\* serialLockDepth = 0 and liveDataPauseRequested = false.
C6_NestedCompletes ==
  /\ [](\A c \in Callers : nest[c] = 2 => pc[c] \notin {"lockWait", "lockReady"})
  /\ [][\A c \in Callers :
          (pc[c] = "unwind" /\ pc'[c] = "done" /\ \A d \in Callers \ {c} : ~InCall(d))
            => (serialLockDepth' = 0 /\ ~liveDataPauseRequested')]_vars
  /\ \A c \in Callers : (kind[c] = "nested" /\ InCall(c)) ~> (pc[c] = "done")

C6_Witness ==
  \E c \in Callers :
     /\ pc[c] = "unwind"
     /\ nest[c] = 1
     /\ serialLockDepth = 1

\* C7: when the operation rejects, serialLockDepth is decremented,
\* liveDataPauseRequested is cleared if the depth reaches 0, and the caller
\* receives that same error.
C7_LockReleasedOnError ==
  [][\A c \in Callers :
       /\ (pc[c] = "unwind" /\ io[c] \in Errors /\ pc'[c] = "done")
            => /\ serialLockDepth' = serialLockDepth - 1
               /\ (serialLockDepth' = 0 => ~liveDataPauseRequested')
               /\ result'[c] = io[c]
       /\ (pc[c] = "writing" /\ kind[c] = "nested" /\ pc'[c] = "unwind"
             /\ io'[c] \in Errors)
            => serialLockDepth' = serialLockDepth - 1
       /\ (pc[c] = "writing" /\ kind[c] = "sendMsg" /\ result'[c] \in Errors)
            => /\ pc'[c] = "done"
               /\ serialLockDepth' = serialLockDepth - 1
               /\ (serialLockDepth' = 0 => ~liveDataPauseRequested')]_vars

C7_Witness ==
  \E c \in Callers :
     /\ pc[c] = "done"
     /\ result[c] \in WriteErrors
     /\ serialLockDepth = 0
     /\ ~liveDataPauseRequested

\* C8: after requestSerialPort has returned false, no port, writer or reader
\* is held.
C8_FailedRequestHoldsNothing ==
  (connKind = "request" /\ connPc = "idle" /\ connResult = "false")
    => (serialPort = None /\ writer = None /\ reader = None)

\* C9: after reconnectSerialPort has failed on reopening the port, no port,
\* writer or reader is held, the port is closed and unlocked, and a
\* requestSerialPort of that port succeeds if the browser lets it.
C9_FailedReopenDisconnects ==
  (connKind = "reconnect" /\ connPc = "idle" /\ connFail = "open")
    => /\ serialPort = None /\ writer = None /\ reader = None
       /\ connPort \notin portOpen \cup wLocked \cup rLocked
       /\ Acquire(connPort, connPort, "ok", Session).fail = "none"

C9_Witness ==
  connKind = "reconnect" /\ connPc = "idle" /\ connFail = "open"

\* C10: closeSerialPort, in whatever session it is called, does not throw
\* and leaves no port, writer or reader; a second call changes nothing.
C10_CloseClearsAndIsIdempotent ==
  LET r == CloseOf(Session) IN
  /\ lastClose # "threw"
  /\ ~r.threw
  /\ r.serialPort = None /\ r.writer = None /\ r.reader = None
  /\ CloseOf(r) = r

C10_Witness ==
  /\ lastClose = "partial"
  /\ Shape(Session) = "closed"

\* C11: after any sequence of requestSerialPort, reconnectSerialPort and
\* closeSerialPort calls, at most one port is open and at most one writer and
\* one reader are acquired and not released.
C11_AtMostOneLive ==
  /\ Cardinality(portOpen) <= 1
  /\ Cardinality(wLocked) <= 1
  /\ Cardinality(rLocked) <= 1

\* nothing but c's own return happens in this step
ReturnsAtOnce(c) ==
  /\ pc'[c] = "done"
  /\ result'[c] \notin Errors
  /\ written' = written
  /\ pendingReads' = pendingReads
  /\ lockVars' = lockVars

\* C12: sendMsg without a writer writes nothing, throws nothing and leaves
\* serialLockDepth, liveDataPauseRequested and liveDataInProgress as they
\* are; readMsg without a reader or without a writer returns '' in the same
\* way.
C12_NoHandleNoEffect ==
  [][\A c \in Callers :
       /\ \A m \in SendMessages :
            (Call(c, "sendMsg", m) /\ writer = None)
              => (ReturnsAtOnce(c) /\ result'[c] = "undefined")
       /\ (Call(c, "readMsg", MsgReadOffsets) /\ (reader = None \/ writer = None))
              => (ReturnsAtOnce(c) /\ result'[c] = "")
       /\ (pc[c] \in {"idle", "done"} /\ kind'[c] = "readMsg")
              => (reader # None /\ writer # None)
       /\ (pc[c] \in {"idle", "done"} /\ kind'[c] = "sendMsg") => writer # None]_vars

C12_Witness ==
  \E c \in Callers :
     /\ pc[c] = "done" /\ result[c] = ""
     /\ reader = None /\ writer # None
     /\ lastClose = "none"

\* the runWithSerialLock frames the callers in S are in
RECURSIVE FramesOf(_)
FramesOf(S) ==
  IF S = {} THEN 0
  ELSE LET c == CHOOSE x \in S : TRUE IN nest[c] + FramesOf(S \ {c})

\* C13: a sendMsg or readMsg that is in flight when closeSerialPort clears
\* the handles ends without an error reaching its caller, and the lock depth
\* is the number of runWithSerialLock frames still in progress.
C13_InFlightSurvivesClose ==
  /\ [](serialLockDepth = FramesOf(Callers))
  /\ [][\A c \in Callers :
          (lastClose' # "none" /\ InCall(c) /\ pc'[c] = "done")
            => result'[c] \notin Errors]_vars

\* C15: readMsg never rejects: on its timeout, on a failed write and on a
\* failed read it resolves to '', it writes at most once (no retry), and a
\* call made without skipLock releases the lock.
C15_ReadMsgNeverRejects ==
  /\ [](\A p \in Procs :
          (kind[p] \in {"readMsg", "tick"} \/ pc[p] = "idle") => Len(written[p]) <= 1)
  /\ [][\A p \in Procs :
          (kind[p] \in {"readMsg", "tick"} /\ pc[p] \in {"writing", "reading", "finally"}
             /\ pc'[p] = "done")
            => /\ result'[p] \in {"", "frame"}
               /\ (result'[p] = "frame" =>
                      (pc[p] = "reading" /\ io[p] = "pending" /\ Head(pendingReads) = p))
               /\ (p \in Callers => serialLockDepth' = serialLockDepth - 1)
               /\ (p \in Callers /\ serialLockDepth' = 0 => ~liveDataPauseRequested')]_vars

C15_Witness ==
  \E c \in Callers :
     /\ pc[c] = "done" /\ result[c] = ""
     /\ \A d \in Callers \ {c} : pc[d] = "idle"
     /\ intervalShowLiveData = None
     /\ Zombies > 0
     /\ serialLockDepth = 0 /\ ~liveDataPauseRequested

\* C14: as soon as the characters received hold ';;' (and the timeout has
\* not fired), readMsg has returned the trimmed text received so far,
\* however the response is split into chunks.
C14_ReturnsOnTerminator ==
  (readPc # "timedout" /\ HasTerminator(response))
    => (readPc = "returned" /\ readResult = Trim(response))

---------------------------------------------------------------------------
(* Telemetry validation, throttle and recording *)

\* the fields of a response, without the empty fields a closing ';;' leaves
RECURSIVE DropEmptyTail(_)
DropEmptyTail(fs) ==
  IF fs # <<>> /\ Trim(fs[Len(fs)]) = <<>>
    THEN DropEmptyTail(SubSeq(fs, 1, Len(fs) - 1))
    ELSE fs

IsFiniteNumber(f) == f # <<>> /\ \A i \in 1..Len(f) : f[i] = "7"

ExactlySevenFinite(str) ==
  LET fs == DropEmptyTail(Split(str)) IN
  Len(fs) = 7 /\ \A i \in 1..7 : IsFiniteNumber(Trim(fs[i]))

NumericFields(str) ==
  LET fs == Split(str) IN
  Cardinality({i \in 1..Len(fs) : ConvertsToNumber(Trim(fs[i]))})

FiveFields == Join([i \in 1..5 |-> GoodField])

\* C16: a response is forwarded to the UI only if it has exactly seven
\* fields and each of them is a finite number; a response with more than
\* seven fields, or with a field that is not finite, is never forwarded.
C16_AcceptedOnlyIfSevenFinite ==
  uiUpdates # <<>> => ExactlySevenFinite(tRead)

\* C17: a response with fewer than seven numeric fields makes none of the
\* seven updateInputValue calls.
C17_ShortResponseNoUI ==
  NumericFields(tRead) < 7 => uiUpdates = <<>>

\* five of seven fields arrived while the throttle was open, and nothing
\* reached the UI
C17_Witness ==
  /\ tRead = FiveFields
  /\ lastUIUpdateTime = 0
  /\ uiUpdates = <<>>

\* C18: a response that fails validation is neither forwarded to the UI nor
\* appended to the recording series, whatever the recording flag.
C18_InvalidDropped ==
  ~AllValuesValid(SevenOf(tRead)) => (uiUpdates = <<>> /\ pushed = <<>>)

\* C19: a response is forwarded only if it arrived at least 100 ms after
\* the arrival of the one forwarded before it, and lastUIUpdateTime changes
\* only in a run that forwards.
C19_ForwardsThrottled ==
  [][\A skew \in 0..MaxSkew :
       ProcessSample(tRead', skew) =>
         /\ uiUpdates' # <<>> => clock - lastUIUpdateTime >= ThrottleMs
         /\ lastUIUpdateTime' # lastUIUpdateTime => uiUpdates' # <<>>]_vars

---------------------------------------------------------------------------
(* Commands on the wire and their order *)

\* C24: every command written to the writer holds exactly one carriage
\* return, as its last token, and none before it.
C24_OneCarriageReturn ==
  \A p \in Procs : \A i \in 1..Len(written[p]) :
     LET w == written[p][i] IN
     /\ w[Len(w)] = CR
     /\ \A j \in 1..(Len(w) - 1) : w[j] # CR

\* C29: the writes of two sendMsg calls are issued in call order: no call
\* writes while a sendMsg called before it has not written yet (the only
\* call that can be waiting for the lock is the earliest one in progress).
C29_WritesInCallOrder ==
  [][\A c, d \in Callers :
       (/\ kind[c] = "sendMsg"
        /\ pc[c] \in {"lockWait", "lockReady"}
        /\ kind'[d] = "sendMsg"
        /\ Writes(d))
         => c = d]_vars

TickStarts == ~liveDataInProgress /\ liveDataInProgress'

\* C30: a runWithSerialLock call that takes the depth from 0 to 1 waits
\* only for the tick in flight: it registers a resolver exactly when a tick
\* is in flight, without one its operation is queued at once and no timer
\* callback runs before it, and no tick starts while it is in progress.
C30_WaitsOnlyForTickInFlight ==
  [][\A c \in Callers :
       /\ (serialLockDepth = 0 /\ serialLockDepth' > 0 /\ ~InCall(c) /\ InCall(c)')
            => /\ liveDataInProgress => pc'[c] = "lockWait"
               /\ ~liveDataInProgress => pc'[c] = "lockReady"
       /\ pc[c] = "lockReady" => ~TimerFire
       /\ (InCall(c) \/ InCall(c)') => ~TickStarts]_vars

\* a call took the lock with no tick in flight while the timer runs, and
\* is about to start its operation
C30_Witness ==
  \E c \in Callers :
     /\ pc[c] = "lockReady"
     /\ serialLockDepth = 1
     /\ ~liveDataInProgress
     /\ intervalShowLiveData # None

---------------------------------------------------------------------------
(* parsePairs and getValue: pairing, conversion, lookup *)

Num(n)  == <<"number", n>>
Text(t) == <<"string", t>>
Parsed  == parsePc \in {"parsed", "looked"}

\* the tokens of a text and its non-empty tokens, in order
TokensOf(str)   == Split(str)
NonEmptyOf(str) == SelectSeq(Split(str), LAMBDA t : t # <<>>)

\* 'R1[' digits ']' and nothing else
IsRegister(t) ==
  /\ Len(t) >= 5
  /\ SubSeq(t, 1, 3) = <<"R", "1", "[">>
  /\ t[Len(t)] = "]"
  /\ AllDigits(SubSeq(t, 4, Len(t) - 1))
RegisterIndex(t) == Decimal(SubSeq(t, 4, Len(t) - 1))

\* an optionally signed run of digits, and its value
IsInteger(t) == AllDigits(t) \/ (t # <<>> /\ Head(t) = "-" /\ AllDigits(Tail(t)))
IntegerOf(t) == IF Head(t) = "-" THEN 0 - Decimal(Tail(t)) ELSE Decimal(t)

\* C25 as stated: parsePairs("R1[10]=0;R1[31]=-1226;") is [(10, 0), (31, -1226)].
C25_AssignmentsParsed ==
  (Parsed /\ input = TextAssignPairs)
    => pairs = <<<<Num(10), Num(0)>>, <<Num(31), Num(0 - 1226)>>>>

\* C25 as amended: a text of the form "R1[a];x;R1[b];y;", registers and
\* integers alternating as separate tokens, yields one pair per register,
\* in order, with the register index as key and the integer as value:
\* parsePairs("R1[10];0;R1[31];-1226;") is [(10, 0), (31, -1226)].
C25_RegisterTokensParsed ==
  LET ts == NonEmptyOf(input) IN
  (/\ Parsed
   /\ Len(ts) % 2 = 0
   /\ \A i \in 1..Len(ts) : IF i % 2 = 1 THEN IsRegister(ts[i]) ELSE IsInteger(ts[i]))
    => /\ pairs = [i \in 1..(Len(ts) \div 2) |->
                     <<Num(RegisterIndex(ts[2 * i - 1])), Num(IntegerOf(ts[2 * i]))>>]
       /\ input = TextTokenPairs
            => pairs = <<<<Num(10), Num(0)>>, <<Num(31), Num(0 - 1226)>>>>

C25_Witness ==
  /\ Parsed
  /\ input = TextTokenPairs
  /\ Len(pairs) = 2

\* C26 as stated: getValue(parsePairs("foo=bar;"), "foo") is "bar".
C26_AssignmentLookedUp ==
  (parsePc = "looked" /\ input = TextAssignName /\ lookupKey = Text(TokName))
    => lookupResult = Text(TokBar)

\* C26 as amended: for a text "name;value;" whose name does not start with
\* "R1[", getValue(parsePairs(text), name) is the value, as a number if it
\* converts to one: getValue(parsePairs("foo;bar;"), "foo") is "bar".
C26_TokenLookedUp ==
  LET ts == TokensOf(input) IN
  (/\ parsePc = "looked"
   /\ Len(ts) = 3 /\ ts[1] # <<>> /\ ts[2] # <<>> /\ ts[3] = <<>>
   /\ (Len(ts[1]) < 3 \/ SubSeq(ts[1], 1, 3) # <<"R", "1", "[">>)
   /\ lookupKey = Text(ts[1]))
    => /\ lookupResult = (IF ToNumber(ts[2]) = NaN THEN Text(ts[2]) ELSE ToNumber(ts[2]))
       /\ input = TextTokenName => lookupResult = Text(TokBar)

C26_Witness ==
  /\ parsePc = "looked"
  /\ input = TextTokenName
  /\ lookupKey = Text(TokName)
  /\ lookupResult = Text(TokBar)

\* C27: the n non-empty tokens of the text are paired two by two, token
\* 2i - 1 giving the key and token 2i the value of pair i: n div 2 pairs in
\* input order, none for the empty text, and an unpaired last key dropped.
C27_ConsecutiveTokensPaired ==
  LET ts == NonEmptyOf(input) IN
  Parsed =>
    /\ Len(pairs) = Len(ts) \div 2
    /\ \A i \in 1..Len(pairs) :
         pairs[i] = <<KeyOf(ts[2 * i - 1]), ValueOf(ts[2 * i])>>
    /\ input = <<>> => pairs = <<>>

\* three non-empty tokens among empty ones: one pair, the last key dropped
C27_Witness ==
  /\ Parsed
  /\ Len(NonEmptyOf(input)) = 3
  /\ Len(TokensOf(input)) = 4
  /\ Len(pairs) = 1

\* C28: when the token after the first key is empty and more tokens follow,
\* the first pair is that key with the string "", and the second pair is
\* made of the two tokens after it.
C28_EmptyValueKept ==
  LET ts == TokensOf(input) IN
  (/\ Parsed
   /\ Len(ts) >= 4
   /\ ts[1] # <<>> /\ ts[2] = <<>> /\ ts[3] # <<>> /\ ts[4] # <<>>)
    => /\ Len(pairs) >= 2
       /\ pairs[1] = <<KeyOf(ts[1]), Text(<<>>)>>
       /\ pairs[2] = <<KeyOf(ts[3]), ValueOf(ts[4])>>

---------------------------------------------------------------------------
(* Starting and stopping the telemetry *)

\* C21: once showLiveData(false) has been called and until showLiveData(true)
\* is called again, no telemetry tick starts.
C21_NoTickAfterStop ==
  [][liveWanted = "stop" => ~TickStarts]_vars

---------------------------------------------------------------------------
(* flushSerialReader and the wire *)

\* C22: every read pending on the reader was issued by the tick in flight
\* or by a call inside runWithSerialLock, and the flush has no read
\* pending while a tick is in flight or a locked call is on the wire.
C22_WireUnderLockOrTick ==
  \A i \in 1..Len(pendingReads) :
     LET h == pendingReads[i] IN
     /\ h = Tick => liveDataInProgress
     /\ h \in Callers => nest[h] > 0
     /\ h = Flush => (~liveDataInProgress /\ \A c \in Callers : ~OnWire(c))

\* C23: a flush that has started its loop ends, and it ends by returning:
\* at the end of the stream, on the timeout of a stalled read, or with its
\* time budget used up (errors of the read are dropped on the way).
C23_FlushTerminates ==
  /\ (flushPc = "reading") ~> (flushPc = "done")
  /\ [](flushPc \in {"idle", "reading", "done"})
  /\ [](flushPc = "done" => flushEnd \in {"noreader", "eos", "timeout", "budget"})

\* the reader was released during the flush: the error was dropped and the
\* flush ended on its budget
C23_Witness ==
  /\ flushPc = "done"
  /\ flushEnd = "budget"
  /\ reader = None
  /\ flushElapsed > FlushBudget

---------------------------------------------------------------------------
(* The lock flags and the tick in flight *)

\* C31: in every state between two synchronous runs, liveDataPauseRequested
\* is true exactly when serialLockDepth > 0, and serialLockDepth is not
\* negative and is the number of runWithSerialLock frames in progress; a
\* timer firing that finds every caller finished and no tick in flight
\* starts a tick.
C31_PauseIffLocked ==
  /\ [](liveDataPauseRequested <=> serialLockDepth > 0)
  /\ [](serialLockDepth >= 0 /\ serialLockDepth = FramesOf(Callers))
  /\ [][(TimerFire /\ ~liveDataInProgress /\ \A c \in Callers : ~InCall(c))
          => TickStarts]_vars

\* every caller has finished, the lock is free, and the timer has started
\* a tick
C31_Witness ==
  /\ \A c \in Callers : pc[c] = "done"
  /\ serialLockDepth = 0
  /\ ~liveDataPauseRequested
  /\ lastTimer = "started"
  /\ liveDataInProgress

TickReads == Cardinality({i \in 1..Len(pendingReads) : pendingReads[i] = Tick})
TickInFlight == pc[Tick] \in {"writing", "reading", "finally"}

\* C32: at most one tick is in flight: liveDataInProgress is true exactly
\* while the one tick is between its start and its finally, the tick has at
\* most one read pending, it writes only in the run that starts it, and a
\* firing of any timer that finds liveDataInProgress true issues no write
\* and no read and leaves the tick in flight where it is.
C32_OneTickInFlight ==
  /\ [](liveDataInProgress <=> TickInFlight)
  /\ [](TickReads <= 1)
  /\ [][Writes(Tick) => TickStarts]_vars
  /\ [][\A t \in TimerIds :
          (LiveTimerFire(t) /\ liveDataInProgress)
            => UNCHANGED <<written, pendingReads, pc, io, liveDataInProgress>>]_vars

\* two interval timers are alive and one of them found the tick in flight
\* (no call holds the lock, so nothing else made it skip)
C32_Witness ==
  /\ Cardinality(timers) = 2
  /\ liveDataInProgress
  /\ ~liveDataPauseRequested
  /\ lastTimer = "skipped"
  /\ pc[Tick] = "reading"

TickEnds == liveDataInProgress /\ ~liveDataInProgress'

\* C33: the run in which a tick ends, however its readMsg ended, clears
\* liveDataInProgress, empties the waiter list and queues every waiter's
\* continuation; a waiter is on the list only while it waits and a tick is
\* in flight, and every waiter leaves the list.
C33_TickEndWakesAll ==
  /\ [][(TickInFlight /\ pc'[Tick] = "done") => TickEnds]_vars
  /\ [][TickEnds =>
          /\ liveDataIdleResolvers' = {}
          /\ \A c \in liveDataIdleResolvers : pc'[c] = "lockReady"]_vars
  /\ [](liveDataIdleResolvers # {} => liveDataInProgress)
  /\ [](\A c \in Callers : c \in liveDataIdleResolvers <=> pc[c] = "lockWait")
  /\ \A c \in Callers :
       (c \in liveDataIdleResolvers) ~> (c \notin liveDataIdleResolvers)

\* a tick has ended without a response and a caller's continuation is
\* queued, the waiter list empty
C33_Witness ==
  \E c \in Callers :
     /\ pc[c] = "lockReady"
     /\ pc[Tick] = "done"
     /\ result[Tick] = ""
     /\ ~liveDataInProgress
     /\ liveDataIdleResolvers = {}

\* C34: a timer firing that finds liveDataPauseRequested or
\* liveDataInProgress true changes nothing: no write, no read, no sample
\* forwarded or recorded, nothing queued, and the lock depth, the two flags,
\* the waiter list and lastUIUpdateTime as they were.
C34_SkippedFiringNoTrace ==
  [][(TimerFire /\ (liveDataPauseRequested \/ liveDataInProgress))
       => /\ UNCHANGED <<lockVars, procVars, pendingReads, handleVars,
                         intervalShowLiveData, connVars, dataVars>>
          /\ lastTimer' = "skipped"]_vars

\* a firing was skipped while a tick was in flight with a caller waiting
C34_Witness ==
  /\ lastTimer = "skipped"
  /\ liveDataInProgress
  /\ liveDataIdleResolvers # {}
  /\ pc[Tick] = "reading"

---------------------------------------------------------------------------
(* The timer handle and the session handles *)

\* C35: at most one interval timer is alive, and intervalShowLiveData holds
\* its id: with no id stored (as after a stop) no timer is alive.
C35_OneTimerHeld ==
  /\ Cardinality(timers) <= 1
  /\ intervalShowLiveData # None => timers = {intervalShowLiveData}
  /\ intervalShowLiveData = None => timers = {}

\* C39: whenever no lifecycle call is in progress, the writer is held if and
\* only if the reader is, and a writer or a reader is held only with the
\* port handle.
C39_HandlesHeldTogether ==
  connPc = "idle"
    => /\ (writer # None <=> reader # None)
       /\ (writer # None \/ reader # None) => serialPort # None

---------------------------------------------------------------------------
(* Disconnecting *)

\* C36: on a disconnect while the poll runs, sendMsg('R1[3]=0\r') issues its
\* write, it does so only after 'eo=1;' has been written, and 'eo=1;' is no
\* longer waiting to be written when closeSerialPort has cleared the writer.
C36_DisconnectWritesBoth ==
  /\ [][ToggleSend => Writes(2)]_vars
  /\ [][(togglePc # "idle" /\ Writes(2)) => pc[1] \notin {"lockWait", "lockReady"}]_vars
  /\ [](togglePc = "closed" => pc[1] \notin {"lockWait", "lockReady"})

---------------------------------------------------------------------------
(* The zero-angle calibration *)

\* C37: whenever setZeroAngles has ended with the port still held, the poll
\* has been started again: a timer is stored, or the start is on its way.
C37_RestartedOnReturn ==
  (zeroPc = "done" /\ serialPort # None)
    => (intervalShowLiveData # None \/ showPc[1] = "start")

\* the response holds a number for each of the four registers
FourNumbers(str) ==
  \A i \in 1..4 :
     GetValueOf(ParsePairsOf(str), Text(ZeroKeys[i]))[1] = "number"
OffsetsSent ==
  \E i \in 1..Len(zeroSent) : zeroSent[i][1] \in {"S1[17]=", "S2[17]="}

\* C38: a run of setZeroAngles calls readMsg at most 5 times; it sends
\* commands (the offsets S1[17], S2[17] among them) only in the run that
\* follows a response holding a number for each of the four registers; and
\* when it gives up it has read 5 times, failed 5 times and sent nothing.
C38_BoundedRetries ==
  /\ zeroReads <= MaxAttempts
  /\ attempts <= zeroReads
  /\ zeroSent # <<>> => (OffsetsSent /\ FourNumbers(zeroText))
  /\ zeroEnd = "gaveup"
       => (zeroSent = <<>> /\ zeroReads = MaxAttempts /\ attempts = MaxAttempts)

\* four attempts failed, the fifth read was valid and the offsets were sent
C38_Witness ==
  /\ attempts = MaxAttempts - 1
  /\ zeroReads = MaxAttempts
  /\ OffsetsSent
  /\ zeroPc = "written"

====
